---- MODULE Spec2Model ----
(***************************************************************************)
(* A model of src/src/utils.ts, the index-resolution and tree-query core   *)
(* of the LRUD focus-navigation engine.                                    *)
(*                                                                         *)
(* JavaScript values are encoded as follows.                               *)
(*   - an optional field is a sequence of length 0 (absent / undefined)    *)
(*     or 1 (present): <<>> and <<v>>;                                     *)
(*   - a string that the code scans character by character (a path, an     *)
(*     id inside a path) is a sequence of one-character strings;           *)
(*   - the result of a child lookup is a record [kind, id] with kind one   *)
(*     of "null", "undefined", "node";                                     *)
(*   - an object mapping (node.children, the tree) is the sequence of its  *)
(*     keys in Object.keys order plus a lookup from key to value.          *)
(***************************************************************************)
EXTENDS Integers, Sequences, FiniteSets, TLC

VARIABLES
    pc,          \* position of the caller: "ready" before the call, "done" after
    result,      \* value returned by the function under call
    values,      \* Closest: the array argument
    goal,        \* Closest: the goal argument
    path,        \* isNodeInPath: the path argument
    id,          \* isNodeInPath: node.id
    node,        \* index resolver: the node argument
    index,       \* index resolver: the index argument
    indexRange,  \* index resolver: the indexRange argument (<<>> is null)
    tree,        \* tree walkers: the tree argument
    nodeId,      \* isNodeInTree: the nodeId argument
    nodeInTree,  \* isNodeInTree: the closure's flag
    stack,       \* isNodeInTree: the forEach frames of the nested _isNodeInTree calls
    visited,     \* isNodeInTree: history of the keys the callback has run on
    nodes,       \* getNodesFromTree: the array being filled and returned
    arrays,      \* heap of indexRange arrays, by address
    snap,        \* what a caller read from the returned list when it was returned
    written,     \* addresses of the arrays updated in place since then
    mutations    \* number of mutations the engine has made to the tree since then

vars == <<pc, result, values, goal, path, id, node, index, indexRange, tree,
          nodeId, nodeInTree, stack, visited, nodes, arrays, snap, written, mutations>>

closestVars == <<values, goal>>
pathVars == <<path, id>>
resolverVars == <<node, index, indexRange>>
walkVars == <<nodeId, nodeInTree, stack, visited>>
heapVars == <<tree, nodes, arrays, snap, written, mutations>>
flattenVars == <<nodes, arrays, snap, written, mutations>>

----
\* Bounds of the model.

\* longest array handed to Closest
MaxLen == 3
\* array elements and goals range over -MaxVal..MaxVal
MaxVal == 2
\* longest path string
MaxPathLen == 5
\* longest node id inside a path
MaxIdLen == 2
\* child indexes, target indexes and range bounds range over 0..MaxIndex
MaxIndex == 2
\* mutations the engine makes to the tree after a flattened list was returned
MaxMutations == 3

----
\* Generic helpers.

None == <<>>
Some(x) == <<x>>

Abs(x) == IF x < 0 THEN -x ELSE x

SeqsUpTo(S, n) == UNION {[1..k -> S] : k \in 0..n}

Range(s) == {s[i] : i \in 1..Len(s)}

\* values of the unused variables of a specification
IdleClosest == values = <<>> /\ goal = 0
IdlePath == path = <<>> /\ id = <<>>
IdleResolver == node = [children |-> <<>>, activeChild |-> <<>>] /\ index = 0 /\ indexRange = <<>>
IdleWalk == nodeId = "" /\ nodeInTree = FALSE /\ stack = <<>> /\ visited = <<>>
IdleTree == tree = [rootKeys |-> <<>>, node |-> <<>>, kids |-> <<>>]
IdleHeap == nodes = <<>> /\ arrays = <<>> /\ snap = <<>> /\ written = {} /\ mutations = 0

----
\* Closest (Nearest-Value Resolver).

\* the reducer callback: keeps prev unless curr is strictly closer to goal
ClosestStepLeq(prev, curr, g) == IF Abs(curr - g) <= Abs(prev - g) THEN curr ELSE prev
ClosestStep(prev, curr, g) == IF Abs(curr - g) < Abs(prev - g) THEN curr ELSE prev

\* Array.prototype.reduce without an initial value: the accumulator starts as
\* the first element and the callback runs on elements 2..Len
RECURSIVE ReduceFrom(_, _, _, _)
ReduceFrom(vs, i, prev, g) ==
    IF i > Len(vs) THEN prev ELSE ReduceFrom(vs, i + 1, ClosestStep(prev, vs[i], g), g)

Closest(vs, g) == ReduceFrom(vs, 2, vs[1], g)

InitClosest ==
    /\ values \in SeqsUpTo(-MaxVal..MaxVal, MaxLen) \ {<<>>}
    /\ goal \in -MaxVal..MaxVal
    /\ pc = "ready" /\ result = None
    /\ IdlePath /\ IdleResolver /\ IdleWalk /\ IdleTree /\ IdleHeap

CallClosest ==
    /\ pc = "ready"
    /\ result' = Some(Closest(values, goal))
    /\ pc' = "done"
    /\ UNCHANGED <<closestVars, pathVars, resolverVars, walkVars, heapVars>>

NextClosest == CallClosest

SpecClosest == InitClosest /\ [][NextClosest]_vars

\* C3: Closest returns an element of values at minimal distance from goal,
\* and among the elements at that distance the one at the smallest position.
C3_ClosestEarliestNearest ==
    pc = "done" /\ values # <<>> =>
        \E p \in 1..Len(values) :
            /\ result = Some(values[p])
            /\ \A q \in 1..Len(values) : Abs(values[p] - goal) <= Abs(values[q] - goal)
            /\ \A q \in 1..(p - 1) : Abs(values[q] - goal) > Abs(values[p] - goal)

\* a tie whose earlier element is the numerically larger one has been resolved
C3_Witness ==
    /\ pc = "done" /\ Len(values) >= 2
    /\ \E p, q \in 1..Len(values) :
          /\ p < q /\ values[p] > values[q]
          /\ Abs(values[p] - goal) = Abs(values[q] - goal)
          /\ result = Some(values[p])

----
\* isNodeInPath (Path Membership).

Chars == {"a", "b", "."}
IdChars == {"a", "b"}
Dot == <<".">>

\* String.prototype.indexOf(search, fromIndex) on 0-based positions; -1 if none.
\* A fromIndex below 0 is taken as 0.
IndexOfFrom(s, search, from) ==
    LET start == IF from < 0 THEN 0 ELSE from
        hits == {k \in start..(Len(s) - Len(search)) :
                    \A j \in 1..Len(search) : s[k + j] = search[j]}
    IN IF hits = {} THEN -1 ELSE CHOOSE k \in hits : \A m \in hits : k <= m

\* String.prototype.lastIndexOf(search, fromIndex): the last occurrence that
\* starts at or before fromIndex; -1 if none
LastIndexOfFrom(s, search, from) ==
    LET hits == {k \in 0..from : k + Len(search) <= Len(s)
                    /\ \A j \in 1..Len(search) : s[k + j] = search[j]}
    IN IF hits = {} THEN -1 ELSE CHOOSE k \in hits : \A m \in hits : k >= m

isNodeInPath(p, nid) ==
    \/ LastIndexOfFrom(p, nid \o Dot, 0) = 0
    \/ LET suffix == Dot \o nid IN IndexOfFrom(p, suffix, Len(p) - Len(suffix)) # -1
    \/ IndexOfFrom(p, Dot \o nid \o Dot, 0) # -1

InitPath ==
    /\ path \in SeqsUpTo(Chars, MaxPathLen)
    /\ id \in SeqsUpTo(IdChars, MaxIdLen) \ {<<>>}
    /\ pc = "ready" /\ result = None
    /\ IdleClosest /\ IdleResolver /\ IdleWalk /\ IdleTree /\ IdleHeap

CallIsNodeInPath ==
    /\ pc = "ready"
    /\ result' = Some(isNodeInPath(path, id))
    /\ pc' = "done"
    /\ UNCHANGED <<closestVars, pathVars, resolverVars, walkVars, heapVars>>

NextPath == CallIsNodeInPath

SpecPath == InitPath /\ [][NextPath]_vars

\* the segments of s split on "."
RECURSIVE Split(_)
Split(s) ==
    IF \A i \in 1..Len(s) : s[i] # "." THEN <<s>>
    ELSE LET d == CHOOSE i \in 1..Len(s) : s[i] = "." /\ \A j \in 1..(i - 1) : s[j] # "."
         IN <<SubSeq(s, 1, d - 1)>> \o Split(SubSeq(s, d + 1, Len(s)))

\* C4 as claimed: for paths of any number of segments, isNodeInPath is true
\* exactly when node.id is one of the segments of the path.
C4_InPathIffSegment ==
    pc = "done" => result = Some(id \in Range(Split(path)))

----
\* Index Resolver.

Null == [kind |-> "null", id |-> ""]
Undefined == [kind |-> "undefined", id |-> ""]
NodeResult(cid) == [kind |-> "node", id |-> cid]

\* keys of node.children, in Object.keys order
ChildIds == <<"x", "y", "z">>

\* node.children[key]: Some(child) or None
ChildAt(children, key) ==
    LET hits == {i \in 1..Len(children) : children[i].id = key}
    IN IF hits = {} THEN None ELSE Some(children[CHOOSE i \in hits : TRUE])

\* Array.prototype.find over Object.keys(node.children): the first of the
\* positions whose child passes the callback, 0 if there is none
FindFirst(hits) ==
    IF hits = {} THEN 0 ELSE CHOOSE i \in hits : \A j \in hits : i <= j

isNodeFocusable(n) ==
    IF n.isFocusable # None THEN n.isFocusable[1] ELSE n.selectAction

RangeSpansExclusiveHigh(child, idx) ==
    child.indexRange # None /\ child.indexRange[1] <= idx /\ child.indexRange[2] > idx
RangeSpans(child, idx) ==
    child.indexRange # None /\ child.indexRange[1] <= idx /\ child.indexRange[2] >= idx

_findChildWithMatchingIndexRange(n, idx) ==
    IF n.children = None THEN Null
    ELSE LET cs == n.children[1]
             hit == FindFirst({i \in 1..Len(cs) : RangeSpans(cs[i], idx)})
         IN IF hit # 0 THEN NodeResult(cs[hit].id) ELSE Undefined

_findChildWithIndex(n, idx) ==
    IF n.children = None THEN Null
    ELSE LET cs == n.children[1]
             hit == FindFirst({i \in 1..Len(cs) : cs[i].index = idx})
         IN IF hit # 0 THEN NodeResult(cs[hit].id) ELSE Null

\* the range test of the index-align shortcut
ActiveChildInRangeExclusive(child, range) ==
    child.index > range[1] /\ child.index < range[2]
ActiveChildInRange(child, range) ==
    child.index >= range[1] /\ child.index <= range[2]

\* the filter that selects the children whose index is collected
IsCandidateFocusableOnly(child) == isNodeFocusable(child)
IsCandidate(child) == isNodeFocusable(child) \/ child.children

\* Object.keys(children).filter(...).map(childId => children[childId].index)
RECURSIVE CandidateIndexes(_)
CandidateIndexes(children) ==
    IF children = <<>> THEN <<>>
    ELSE (IF IsCandidate(Head(children)) THEN <<Head(children).index>> ELSE <<>>)
         \o CandidateIndexes(Tail(children))

_findChildWithClosestIndex(n, idx, range) ==
    IF n.children = None THEN Null
    ELSE LET cs == n.children[1]
             activeChild == IF n.activeChild = None THEN None
                            ELSE ChildAt(cs, n.activeChild[1])
             indexes == CandidateIndexes(cs)
         IN IF /\ range # None
               /\ activeChild # None
               /\ ActiveChildInRange(activeChild[1], range)
               /\ isNodeFocusable(activeChild[1])
            THEN NodeResult(activeChild[1].id)
            ELSE IF Len(indexes) <= 0 THEN Null
            ELSE _findChildWithIndex(n, Closest(indexes, idx))

Indexes == 0..MaxIndex
IndexRanges == {r \in Indexes \X Indexes : r[1] <= r[2]}

\* the focusability fields a child is drawn with: focusable through
\* selectAction, explicitly not focusable despite a selectAction, focusable by
\* override, and a plain container
ChildKinds ==
    { [isFocusable |-> None, selectAction |-> TRUE, children |-> FALSE],
      [isFocusable |-> Some(FALSE), selectAction |-> TRUE, children |-> FALSE],
      [isFocusable |-> Some(TRUE), selectAction |-> FALSE, children |-> FALSE],
      [isFocusable |-> None, selectAction |-> FALSE, children |-> TRUE] }

Child(cid, idx, kind, range) ==
    [id |-> cid, index |-> idx, indexRange |-> range, isFocusable |-> kind.isFocusable,
     selectAction |-> kind.selectAction, children |-> kind.children]

\* the children mappings over the first k keys of ChildIds, from per-child choices
ChildSeqs(Choices) ==
    UNION { { [i \in 1..k |-> Child(ChildIds[i], c[i].index, c[i].kind, c[i].indexRange)] :
                c \in [1..k -> Choices] } : k \in 0..Len(ChildIds) }

NodesOver(Choices) ==
    {[children |-> None, activeChild |-> None]}
    \cup UNION { { [children |-> Some(cs), activeChild |-> a] :
                     a \in {None} \cup {Some(cs[i].id) : i \in 1..Len(cs)} } :
                 cs \in ChildSeqs(Choices) }

InitResolver ==
    /\ node \in NodesOver([index : Indexes, kind : ChildKinds, indexRange : {None}])
    /\ index \in Indexes
    /\ indexRange \in {None} \cup IndexRanges
    /\ pc = "ready" /\ result = None
    /\ IdleClosest /\ IdlePath /\ IdleWalk /\ IdleTree /\ IdleHeap

CallFindChildWithClosestIndex ==
    /\ pc = "ready"
    /\ result' = Some(_findChildWithClosestIndex(node, index, indexRange))
    /\ pc' = "done"
    /\ UNCHANGED <<closestVars, pathVars, resolverVars, walkVars, heapVars>>

NextResolver == CallFindChildWithClosestIndex

SpecResolver == InitResolver /\ [][NextResolver]_vars

InitRange ==
    /\ node \in NodesOver([index : {0}, kind : {CHOOSE k \in ChildKinds : k.children},
                           indexRange : {None} \cup IndexRanges])
    /\ node.activeChild = None
    /\ index \in Indexes
    /\ indexRange = None
    /\ pc = "ready" /\ result = None
    /\ IdleClosest /\ IdlePath /\ IdleWalk /\ IdleTree /\ IdleHeap

CallFindChildWithMatchingIndexRange ==
    /\ pc = "ready"
    /\ result' = Some(_findChildWithMatchingIndexRange(node, index))
    /\ pc' = "done"
    /\ UNCHANGED <<closestVars, pathVars, resolverVars, walkVars, heapVars>>

NextRange == CallFindChildWithMatchingIndexRange

SpecRange == InitRange /\ [][NextRange]_vars

\* the children of node, <<>> when it has none
Children == IF node.children = None THEN <<>> ELSE node.children[1]

\* positions of the children that are focusable or have children
Candidates == {i \in 1..Len(Children) : isNodeFocusable(Children[i]) \/ Children[i].children}

\* positions of the active child when it is focusable and its index is inside
\* the supplied indexRange (empty when the index-align shortcut does not apply)
AlignedActive ==
    {i \in 1..Len(Children) :
        /\ indexRange # None /\ node.activeChild = Some(Children[i].id)
        /\ indexRange[1] <= Children[i].index /\ Children[i].index <= indexRange[2]
        /\ isNodeFocusable(Children[i])}

\* C1: with an indexRange supplied and a focusable active child whose index is
\* inside it, _findChildWithClosestIndex returns that active child.
C1_AlignedActiveChildReturned ==
    pc = "done" => \A i \in AlignedActive : result = Some(NodeResult(Children[i].id))

\* the shortcut won against a focusable sibling strictly closer to the target
C1_Witness ==
    /\ pc = "done"
    /\ \E i \in AlignedActive : \E j \in 1..Len(Children) :
          /\ isNodeFocusable(Children[j])
          /\ Abs(Children[j].index - index) < Abs(Children[i].index - index)
          /\ result = Some(NodeResult(Children[i].id))

\* C2: when the shortcut does not apply and there is a candidate, the returned
\* child carries the index of the first candidate, in Object.keys order, among
\* those at minimal distance from the target; it is that candidate itself when
\* no earlier child shares its index.
C2_ClosestCandidateIndex ==
    pc = "done" /\ AlignedActive = {} /\ Candidates # {} =>
        \E p \in Candidates :
            /\ \A q \in Candidates :
                  Abs(Children[p].index - index) <= Abs(Children[q].index - index)
            /\ \A q \in Candidates :
                  q < p => Abs(Children[q].index - index) > Abs(Children[p].index - index)
            /\ result[1].kind = "node"
            /\ \E r \in 1..Len(Children) :
                  Children[r].id = result[1].id /\ Children[r].index = Children[p].index
            /\ (\A r \in 1..(p - 1) : Children[r].index # Children[p].index)
                  => result[1].id = Children[p].id

\* two candidates on either side of the target at the same distance: the
\* earlier key was returned
C2_Witness ==
    /\ pc = "done" /\ AlignedActive = {}
    /\ \E p, q \in Candidates :
          /\ p < q /\ Children[p].index # Children[q].index
          /\ Abs(Children[p].index - index) = Abs(Children[q].index - index)
          /\ \A r \in Candidates :
                Abs(Children[p].index - index) <= Abs(Children[r].index - index)
          /\ result = Some(NodeResult(Children[p].id))

\* C8: _findChildWithMatchingIndexRange returns null without children,
\* otherwise the first child whose indexRange is defined and contains index,
\* and undefined when there is none.
C8_FirstSpanningChild ==
    pc = "done" =>
        LET spanning == {i \in 1..Len(Children) :
                            /\ Children[i].indexRange # None
                            /\ Children[i].indexRange[1] <= index
                            /\ index <= Children[i].indexRange[2]}
        IN /\ node.children = None => result = Some(Null)
           /\ node.children # None /\ spanning = {} => result = Some(Undefined)
           /\ \A i \in spanning : (\A j \in spanning : i <= j)
                  => result = Some(NodeResult(Children[i].id))

\* a child without indexRange and a child whose range misses index come first,
\* and a later child whose range ends exactly at index is returned
C8_Witness ==
    /\ pc = "done" /\ Len(Children) = 3
    /\ Children[1].indexRange = None
    /\ Children[2].indexRange # None /\ Children[2].indexRange[2] < index
    /\ Children[3].indexRange # None /\ Children[3].indexRange[2] = index
    /\ result = Some(NodeResult(Children[3].id))

\* C10 as claimed: every child _findChildWithClosestIndex returns is focusable
\* or has children, and it returns null only when node has no children or no
\* child is focusable or has children.
C10_ReturnsNavigableCandidate ==
    pc = "done" =>
        /\ result[1].kind = "node" =>
              \E i \in Candidates : Children[i].id = result[1].id
        /\ result[1].kind = "null" => Candidates = {}

----
\* The tree. Node ids are unique within the tree, so a nested mapping is held
\* as: rootKeys, the keys of the root mapping in Object.keys order; node, the
\* fields of the node stored under each key; kids, the keys of each node's
\* children mapping in Object.keys order. node[k].children is None when the
\* node has no children mapping and Some(k), a reference to that mapping,
\* when it has one (possibly empty).

TreeIds == {"a", "b", "c"}

TreeNode(ownId, parent, idx, range, active, children) ==
    [id |-> ownId, parent |-> parent, index |-> idx, indexRange |-> range,
     activeChild |-> active, children |-> children]

Keys(t) == DOMAIN t.node

\* the key of the node whose children mapping holds k: None at root level
StructuralParent(t, k) ==
    IF \E p \in Keys(t) : k \in Range(t.kids[p])
    THEN Some(CHOOSE p \in Keys(t) : k \in Range(t.kids[p]))
    ELSE None

RECURSIVE Descendants(_, _)
Descendants(t, k) ==
    Range(t.kids[k]) \cup UNION {Descendants(t, c) : c \in Range(t.kids[k])}

Orderings(S) == {s \in [1..Cardinality(S) -> S] : Range(s) = S}

\* sp gives each used key its structural parent ("" at root level), ord the
\* relative order of the keys, withMap the childless nodes that still carry
\* an (empty) children mapping, fields the remaining fields of each node
MkTree(used, sp, ord, withMap, fields) ==
    [rootKeys |-> SelectSeq(ord, LAMBDA k : sp[k] = ""),
     node |-> [k \in used |->
                 TreeNode(fields[k].id, fields[k].parent, fields[k].index, None, None,
                          IF k \in withMap \/ \E c \in used : sp[c] = k
                          THEN Some(k) ELSE None)],
     kids |-> [k \in used |-> SelectSeq(ord, LAMBDA c : sp[c] = k)]]

\* sp has no cycle: following it from any key reaches the root level
Acyclic(used, sp) ==
    \A k \in used :
        LET up1 == sp[k]
            up2 == IF up1 = "" THEN "" ELSE sp[up1]
            up3 == IF up2 = "" THEN "" ELSE sp[up2]
        IN up3 = ""

TreesOver(Fields) ==
    UNION { UNION { { MkTree(used, sp, ord, withMap, fields) :
                        ord \in Orderings(used),
                        withMap \in SUBSET {k \in used : \A c \in used : sp[c] # k},
                        fields \in [used -> Fields] } :
                      sp \in {f \in [used -> used \cup {""}] : Acyclic(used, f)} } :
            used \in SUBSET TreeIds }

----
\* isNodeInTree (Membership Tester), callback by callback.

\* nodeInTree after the callback's first statement has run on key
FlagAfterOverwrite(flag, key, target) == target = key
FlagAfter(flag, key, target) == IF target = key THEN TRUE ELSE flag

\* whether the callback calls _isNodeInTree on the children of n
DescendsUnlessFound(flag, n) == ~flag /\ n.children # None
Descends(flag, n) == n.children # None

\* the forEach of one _isNodeInTree call: the keys it iterates, the next position
Frame(keys) == [keys |-> keys, i |-> 1]

InitWalk ==
    /\ tree \in TreesOver({[id |-> None, parent |-> None, index |-> None]})
    /\ nodeId \in TreeIds \cup {"zz"}
    /\ nodeInTree = FALSE /\ stack = <<>> /\ visited = <<>>
    /\ pc = "ready" /\ result = None
    /\ IdleClosest /\ IdlePath /\ IdleResolver /\ IdleHeap

\* isNodeInTree is entered: the flag is false and _isNodeInTree(tree) is called
CallIsNodeInTree ==
    /\ pc = "ready"
    /\ nodeInTree' = FALSE
    /\ stack' = <<Frame(tree.rootKeys)>>
    /\ pc' = "walking"
    /\ UNCHANGED <<result, nodeId, visited, tree, closestVars, pathVars, resolverVars, flattenVars>>

\* the forEach callback runs on the next key of the innermost call; a call on
\* the children of that key is entered when the callback makes one
VisitKey ==
    /\ pc = "walking" /\ stack # <<>>
    /\ LET top == stack[Len(stack)]
       IN /\ top.i <= Len(top.keys)
          /\ LET treeProperty == top.keys[top.i]
                 flag == FlagAfter(nodeInTree, treeProperty, nodeId)
                 advanced == [stack EXCEPT ![Len(stack)].i = top.i + 1]
             IN /\ nodeInTree' = flag
                /\ visited' = Append(visited, treeProperty)
                /\ stack' = IF Descends(flag, tree.node[treeProperty])
                            THEN Append(advanced, Frame(tree.kids[treeProperty]))
                            ELSE advanced
    /\ UNCHANGED <<pc, result, nodeId, tree, closestVars, pathVars, resolverVars, flattenVars>>

\* the forEach of the innermost call is exhausted: the call returns, and when
\* it was the outermost one isNodeInTree returns the flag
ReturnFromWalk ==
    /\ pc = "walking" /\ stack # <<>>
    /\ stack[Len(stack)].i > Len(stack[Len(stack)].keys)
    /\ stack' = SubSeq(stack, 1, Len(stack) - 1)
    /\ IF Len(stack) = 1
       THEN pc' = "done" /\ result' = Some(nodeInTree)
       ELSE UNCHANGED <<pc, result>>
    /\ UNCHANGED <<nodeId, nodeInTree, visited, tree, closestVars, pathVars, resolverVars, flattenVars>>

NextWalk == CallIsNodeInTree \/ VisitKey \/ ReturnFromWalk

SpecWalk == InitWalk /\ [][NextWalk]_vars

\* C7: isNodeInTree returns true exactly when nodeId is a key of the root
\* mapping or of some children mapping at any depth.
C7_InTreeIffKey ==
    pc = "done" => result = Some(nodeId \in Keys(tree))

\* true was returned for a key that sits two levels below the root mapping
C7_Witness ==
    /\ pc = "done" /\ result = Some(TRUE) /\ nodeId \in Keys(tree)
    /\ \E p \in Keys(tree) : StructuralParent(tree, nodeId) = Some(p)
                             /\ StructuralParent(tree, p) # None

\* C9 as claimed: once the flag is set, no further call on a children mapping
\* is entered.
C9_NoDescentOnceFound ==
    [][nodeInTree => Len(stack') <= Len(stack)]_vars

\* C9 as amended: the flag is true exactly when nodeId is among the keys the
\* callback has run on, a set flag does not stop the descent, and when the
\* walk returns the callback has run once on every key of the tree.
C9_WalkIsExhaustive ==
    /\ nodeInTree = (nodeId \in Range(visited))
    /\ pc = "done" => /\ Range(visited) = Keys(tree)
                      /\ Len(visited) = Cardinality(Keys(tree))

\* the walk has returned after running the callback on a key that lies below
\* a node visited after the flag was set
C9_Witness ==
    /\ pc = "done" /\ nodeInTree
    /\ \E i, j \in 1..Len(visited) :
          /\ i < j - 1
          /\ visited[i] = nodeId
          /\ StructuralParent(tree, visited[j]) = Some(visited[j - 1])

----
\* getNodesFromTree (Tree Flattener).

\* const _parent = tree[treeProperty].parent || parent
ResolveParentStructural(n, parent) == parent
ResolveParent(n, parent) == IF n.parent # None THEN n.parent ELSE parent

\* the object pushed for key k: the node's own fields spread by value (an
\* indexRange array by reference), then id, children and parent overridden
MakeRecordKeepsChildren(t, k, parent) ==
    [id |-> k, parent |-> ResolveParent(t.node[k], parent), index |-> t.node[k].index,
     indexRange |-> t.node[k].indexRange, activeChild |-> t.node[k].activeChild,
     children |-> t.node[k].children]
MakeRecord(t, k, parent) ==
    [id |-> k, parent |-> ResolveParent(t.node[k], parent), index |-> t.node[k].index,
     indexRange |-> t.node[k].indexRange, activeChild |-> t.node[k].activeChild,
     children |-> None]

\* the pushes of one _getNodesFromTree call over the mapping with these keys
RECURSIVE _getNodesFromTree(_, _, _)
_getNodesFromTree(t, keys, parent) ==
    IF keys = <<>> THEN <<>>
    ELSE LET treeProperty == Head(keys)
         IN <<MakeRecord(t, treeProperty, parent)>>
            \o (IF t.node[treeProperty].children # None
                THEN _getNodesFromTree(t, t.kids[treeProperty], Some(treeProperty))
                ELSE <<>>)
            \o _getNodesFromTree(t, Tail(keys), parent)

getNodesFromTree(t) == _getNodesFromTree(t, t.rootKeys, None)

\* what reading a record yields: its fields, with the array and the mapping it
\* references read through the heap as they are now
Observe(rec, t, arrs) ==
    [rec EXCEPT !.indexRange = IF rec.indexRange = None THEN None
                               ELSE Some(arrs[rec.indexRange[1]]),
                !.children = IF rec.children = None THEN None
                             ELSE IF rec.children[1] \in DOMAIN t.kids
                                  THEN Some(t.kids[rec.children[1]])
                                  ELSE Some(<<>>)]

View(list, t, arrs) == [i \in 1..Len(list) |-> Observe(list[i], t, arrs)]

InitFlatten ==
    /\ tree \in TreesOver([id : {None, Some("q")}, parent : {None, Some("p")},
                           index : {Some(0)}])
    /\ nodes = <<>> /\ arrays = <<>> /\ snap = <<>> /\ written = {} /\ mutations = 0
    /\ pc = "ready" /\ result = None
    /\ IdleClosest /\ IdlePath /\ IdleResolver /\ IdleWalk

\* getNodesFromTree is called and its caller reads the returned list
CallGetNodesFromTree ==
    /\ pc = "ready"
    /\ nodes' = getNodesFromTree(tree)
    /\ snap' = View(nodes', tree, arrays)
    /\ written' = {}
    /\ mutations' = 0
    /\ pc' = "done"
    /\ UNCHANGED <<result, tree, arrays, closestVars, pathVars, resolverVars, walkVars>>

NextFlatten == CallGetNodesFromTree

SpecFlatten == InitFlatten /\ [][NextFlatten]_vars

\* position of the record with id k in the returned list
PosOf(k) == CHOOSE i \in 1..Len(nodes) : nodes[i].id = k

\* C5: getNodesFromTree returns one record per node, in depth-first
\* pre-order with siblings in mapping order; each record has id equal to the
\* node's key, no children, and parent equal to the node's explicit parent
\* when present and otherwise the key of its structural parent.
C5_OneRecordPerNodePreOrder ==
    pc = "done" =>
        /\ Len(nodes) = Cardinality(Keys(tree))
        /\ {nodes[i].id : i \in 1..Len(nodes)} = Keys(tree)
        /\ \A i \in 1..Len(nodes) :
              LET k == nodes[i].id
                  below == Descendants(tree, k)
              IN /\ nodes[i].children = None
                 /\ nodes[i].parent = IF tree.node[k].parent # None
                                      THEN tree.node[k].parent
                                      ELSE StructuralParent(tree, k)
                 /\ nodes[i].index = tree.node[k].index
                 /\ i + Cardinality(below) <= Len(nodes)
                 /\ {nodes[j].id : j \in (i + 1)..(i + Cardinality(below))} = below
        /\ \A m \in {tree.rootKeys} \cup {tree.kids[k] : k \in Keys(tree)} :
              \A x, y \in 1..Len(m) : x < y => PosOf(m[x]) < PosOf(m[y])

\* a list was returned for a three-level tree whose node under the root has an
\* explicit parent and whose leaf has none
C5_Witness ==
    /\ pc = "done" /\ Len(nodes) = 3
    /\ StructuralParent(tree, nodes[2].id) = Some(nodes[1].id)
    /\ StructuralParent(tree, nodes[3].id) = Some(nodes[2].id)
    /\ tree.node[nodes[2].id].parent = Some("p") /\ nodes[2].parent = Some("p")
    /\ tree.node[nodes[3].id].parent = None /\ nodes[3].parent = Some(nodes[2].id)
    /\ tree.node[nodes[3].id].id = Some("q")

----
\* The engine's mutations of the live tree after a list was returned.

HeapIndexes == 0..1
HeapRanges == {r \in HeapIndexes \X HeapIndexes : r[1] <= r[2]}

\* the trees over the keys a and b in which the nodes of ranged carry an
\* indexRange array of their own
RangedTree(t, ranged) ==
    [t EXCEPT !.node = [k \in DOMAIN t.node |->
        [t.node[k] EXCEPT !.indexRange =
            IF k \notin ranged THEN None
            ELSE IF k = "a" \/ "a" \notin ranged THEN Some(1) ELSE Some(2)]]]

InitAlias ==
    /\ \E t \in TreesOver({[id |-> None, parent |-> None, index |-> Some(0)]}) :
          /\ Keys(t) # {} /\ "c" \notin Keys(t)
          /\ \E ranged \in SUBSET Keys(t) :
                /\ tree = RangedTree(t, ranged)
                /\ arrays = [i \in 1..Cardinality(ranged) |-> <<0, 1>>]
    /\ nodes = <<>> /\ snap = <<>> /\ written = {} /\ mutations = 0
    /\ pc = "ready" /\ result = None
    /\ IdleClosest /\ IdlePath /\ IdleResolver /\ IdleWalk

Mutating == pc = "done" /\ mutations < MaxMutations /\ mutations' = mutations + 1

engineFrame == <<pc, result, nodes, snap, closestVars, pathVars, resolverVars, walkVars>>

SetActiveChild ==
    /\ Mutating
    /\ \E k \in Keys(tree) : \E c \in Range(tree.kids[k]) :
          /\ tree.node[k].activeChild # Some(c)
          /\ tree' = [tree EXCEPT !.node[k].activeChild = Some(c)]
    /\ UNCHANGED <<arrays, written, engineFrame>>

SetIndex ==
    /\ Mutating
    /\ \E k \in Keys(tree) : \E v \in HeapIndexes :
          /\ tree.node[k].index # Some(v)
          /\ tree' = [tree EXCEPT !.node[k].index = Some(v)]
    /\ UNCHANGED <<arrays, written, engineFrame>>

AddChild ==
    /\ Mutating
    /\ \E p \in Keys(tree) : \E c \in TreeIds \ Keys(tree) :
          tree' = [rootKeys |-> tree.rootKeys,
                   node |-> [k \in Keys(tree) \cup {c} |->
                               IF k = c
                               THEN TreeNode(None, Some(p), Some(Len(tree.kids[p])),
                                             None, None, None)
                               ELSE IF k = p THEN [tree.node[p] EXCEPT !.children = Some(p)]
                               ELSE tree.node[k]],
                   kids |-> [k \in Keys(tree) \cup {c} |->
                               IF k = c THEN <<>>
                               ELSE IF k = p THEN Append(tree.kids[p], c)
                               ELSE tree.kids[k]]]
    /\ UNCHANGED <<arrays, written, engineFrame>>

RemoveChild ==
    /\ Mutating
    /\ \E p \in Keys(tree) : \E c \in Range(tree.kids[p]) :
          /\ tree.kids[c] = <<>>
          /\ tree' = [rootKeys |-> tree.rootKeys,
                      node |-> [k \in Keys(tree) \ {c} |->
                                  IF k = p /\ tree.node[p].activeChild = Some(c)
                                  THEN [tree.node[p] EXCEPT !.activeChild = None]
                                  ELSE tree.node[k]],
                      kids |-> [k \in Keys(tree) \ {c} |->
                                  IF k = p THEN SelectSeq(tree.kids[p], LAMBDA x : x # c)
                                  ELSE tree.kids[k]]]
    /\ UNCHANGED <<arrays, written, engineFrame>>

\* node.indexRange[i] = v: the array the node references is updated in place
WriteIndexRangeElement ==
    /\ Mutating
    /\ \E k \in Keys(tree) : \E i \in 1..2 : \E v \in HeapIndexes :
          /\ tree.node[k].indexRange # None
          /\ LET r == tree.node[k].indexRange[1]
             IN /\ arrays[r][i] # v
                /\ [arrays[r] EXCEPT ![i] = v] \in HeapRanges
                /\ arrays' = [arrays EXCEPT ![r][i] = v]
                /\ written' = written \cup {r}
    /\ UNCHANGED <<tree, engineFrame>>

\* node.indexRange = [lo, hi]: the node is given a new array
ReplaceIndexRange ==
    /\ Mutating
    /\ \E k \in Keys(tree) : \E r \in HeapRanges :
          /\ arrays' = Append(arrays, r)
          /\ tree' = [tree EXCEPT !.node[k].indexRange = Some(Len(arrays) + 1)]
    /\ UNCHANGED <<written, engineFrame>>

NextAlias ==
    \/ CallGetNodesFromTree
    \/ SetActiveChild \/ SetIndex \/ AddChild \/ RemoveChild
    \/ WriteIndexRangeElement \/ ReplaceIndexRange

SpecAlias == InitAlias /\ [][NextAlias]_vars

\* C6 as claimed: no later mutation of the tree or of a value reachable from
\* it changes any field of any record of the returned list.
C6_ListNeverChanges ==
    pc = "done" => View(nodes, tree, arrays) = snap

\* C6 as amended: every field of every record stays as it was returned,
\* except the indexRange of a record whose array was later updated in place.
C6_ListChangesOnlyThroughSharedArray ==
    pc = "done" =>
        /\ Len(snap) = Len(nodes)
        /\ \A i \in 1..Len(nodes) :
              LET now == Observe(nodes[i], tree, arrays)
              IN /\ now.id = snap[i].id /\ now.parent = snap[i].parent
                 /\ now.index = snap[i].index /\ now.activeChild = snap[i].activeChild
                 /\ now.children = snap[i].children
                 /\ (nodes[i].indexRange = None \/ nodes[i].indexRange[1] \notin written)
                       => now.indexRange = snap[i].indexRange

\* after the list was returned a node was given another index, a new
\* indexRange array and a child, and its record still reads as returned
C6_Witness ==
    /\ pc = "done" /\ mutations = 3
    /\ \E i \in 1..Len(nodes) :
          LET k == nodes[i].id
          IN /\ k \in Keys(tree)
             /\ nodes[i].indexRange # None
             /\ tree.node[k].indexRange # nodes[i].indexRange
             /\ tree.node[k].index # nodes[i].index
             /\ Len(tree.kids[k]) > Cardinality({j \in 1..Len(nodes) : snap[j].parent = Some(k)})
             /\ Observe(nodes[i], tree, arrays) = snap[i]

====
